---- MODULE Spec2Model ----
(***************************************************************************)
(* A model of the request/response pipeline of the mailerlite-go client:   *)
(* client.go (client configuration, newRequest, do, checkResponse,         *)
(* addOptions) and meta.go (the Links page-token helpers).                 *)
(*                                                                         *)
(* Strings are sequences of symbols.  A symbol is either one of the URL    *)
(* punctuation characters ("?", "&", "=", "[", "]"), a percent escape      *)
(* ("%5B", "%5D"), the control character CTL, or a run of unreserved       *)
(* characters ("page", "status", "1", "/subscribers", ...).  The empty      *)
(* string is << >>.                                                        *)
(***************************************************************************)
EXTENDS Integers, Sequences, FiniteSets, TLC

VARIABLES
    encS, encOpt, encOut, encPc,     \* addOptions: inputs, result, position
    links, linksOp, linksOut,        \* a Links object, the last helper called
                                     \* on it and what it returned
    apiKey, client,                  \* Client.apiKey, Client.client
    setKey, setClient,               \* the key / transport most recently given
                                     \* to NewClient, SetAPIKey, SetHttpClient
    pc,                              \* "idle", or "built": newRequest returned
                                     \* a request that do has not yet sent
    req,                             \* what the last newRequest returned
    resp,                            \* the http.Response the transport returned
    doIn, doOut,                     \* the last do call: inputs and results
    checks                           \* what each checkResponse call on resp
                                     \* returned, in call order

encVars == <<encS, encOpt, encOut, encPc>>
linksVars == <<links, linksOp, linksOut>>
pipeVars == <<apiKey, client, setKey, setClient, pc, req, resp, doIn, doOut, checks>>
vars == <<encVars, linksVars, pipeVars>>

----------------------------------------------------------------------------
(* Bounds of the model *)

\* largest number of key=value pairs in the query string of a base URL
MaxBasePairs == 2
\* largest page / limit number carried by an options value
MaxPage == 1
\* largest number of key=value pairs in the query string of a page link
MaxLinkPairs == 2
\* how far below and above the ends of 200..299 the status codes reach
StatusMargin == 2
\* largest number of checkResponse calls on one response
MaxChecks == 2

----------------------------------------------------------------------------
(* Strings *)

APIBase == <<"https://connect.mailerlite.com/api">>

\* an ASCII control character (url.Parse rejects any URL holding one)
CTL == "CTL"

\* byte order of the symbols that may occur in an unescaped query key
SymbolOrder ==
    <<"1", "2", "3", "Filter", "Name", "Value", "[", "]", "active", "filter",
      "limit", "old", "page", "page_token", "status", "tok">>

Rank(c) ==
    IF \E i \in 1..Len(SymbolOrder) : SymbolOrder[i] = c
    THEN CHOOSE i \in 1..Len(SymbolOrder) : SymbolOrder[i] = c
    ELSE 0

\* strings.Compare on two strings: a < b
RECURSIVE StrLess(_, _)
StrLess(a, b) ==
    IF b = <<>> THEN FALSE
    ELSE IF a = <<>> THEN TRUE
    ELSE IF Head(a) = Head(b) THEN StrLess(Tail(a), Tail(b))
    ELSE Rank(Head(a)) < Rank(Head(b))

\* index of the first occurrence of symbol c in s, 0 when there is none
IndexOf(s, c) ==
    IF \E i \in 1..Len(s) : s[i] = c
    THEN CHOOSE i \in 1..Len(s) : s[i] = c /\ \A j \in 1..(i - 1) : s[j] # c
    ELSE 0

\* strings.Split(s, sep) for a one-symbol separator
RECURSIVE Split(_, _)
Split(s, sep) ==
    LET i == IndexOf(s, sep)
    IN  IF i = 0 THEN <<s>>
        ELSE <<SubSeq(s, 1, i - 1)>> \o Split(SubSeq(s, i + 1, Len(s)), sep)

\* strconv.Itoa for the numbers of the model
Itoa(n) == <<ToString(n)>>

----------------------------------------------------------------------------
(* net/url as used by client.go and meta.go *)

\* url.QueryEscape: "[" and "]" are percent-encoded, unreserved runs are kept
RECURSIVE QueryEscape(_)
QueryEscape(s) ==
    IF s = <<>> THEN <<>>
    ELSE (CASE Head(s) = "[" -> <<"%5B">>
            [] Head(s) = "]" -> <<"%5D">>
            [] OTHER -> <<Head(s)>>) \o QueryEscape(Tail(s))

\* url.QueryUnescape
RECURSIVE QueryUnescape(_)
QueryUnescape(s) ==
    IF s = <<>> THEN <<>>
    ELSE (CASE Head(s) = "%5B" -> <<"[">>
            [] Head(s) = "%5D" -> <<"]">>
            [] OTHER -> <<Head(s)>>) \o QueryUnescape(Tail(s))

\* url.Values.Add(key, value): append to the key's list
ValuesAdd(m, k, v) ==
    IF k \in DOMAIN m THEN [m EXCEPT ![k] = Append(@, v)]
    ELSE m @@ (k :> <<v>>)

EmptyValues == [k \in {} |-> <<>>]

\* url.ParseQuery over the "&"-separated pieces of a raw query: an empty
\* piece is skipped, a piece is cut at its first "=", key and value are
\* unescaped and the value is appended to the key's list
RECURSIVE ParsePieces(_, _)
ParsePieces(pieces, m) ==
    IF pieces = <<>> THEN m
    ELSE LET p == Head(pieces)
             i == IndexOf(p, "=")
             k == IF i = 0 THEN p ELSE SubSeq(p, 1, i - 1)
             v == IF i = 0 THEN <<>> ELSE SubSeq(p, i + 1, Len(p))
         IN  IF p = <<>> THEN ParsePieces(Tail(pieces), m)
             ELSE ParsePieces(Tail(pieces),
                              ValuesAdd(m, QueryUnescape(k), QueryUnescape(v)))

ParseQuery(raw) == ParsePieces(Split(raw, "&"), EmptyValues)

\* url.Parse: a control character is an error; the string is cut at its
\* first "?" into the part before the query and the raw query; a lone
\* trailing "?" sets ForceQuery
UrlParse(s) ==
    LET i == IndexOf(s, "?")
    IN  IF \E j \in 1..Len(s) : s[j] = CTL
        THEN [ok |-> FALSE, Path |-> <<>>, RawQuery |-> <<>>, ForceQuery |-> FALSE]
        ELSE IF i = 0
        THEN [ok |-> TRUE, Path |-> s, RawQuery |-> <<>>, ForceQuery |-> FALSE]
        ELSE [ok |-> TRUE, Path |-> SubSeq(s, 1, i - 1),
              RawQuery |-> SubSeq(s, i + 1, Len(s)),
              ForceQuery |-> (i = Len(s))]

\* whether a string starts with a scheme, or with a slash
HasScheme(s) == s # <<>> /\ Head(s) \in {"https://connect.mailerlite.com/api"}
HasLeadingSlash(s) == s # <<>> /\ Head(s) \in {"/subscribers"}

\* url.ParseRequestURI: as url.Parse, and the empty string and a string
\* that is neither an absolute URI nor an absolute path are errors too
UrlParseRequestURI(s) ==
    IF s = <<>> \/ ~(HasScheme(s) \/ HasLeadingSlash(s))
    THEN [ok |-> FALSE, Path |-> <<>>, RawQuery |-> <<>>, ForceQuery |-> FALSE]
    ELSE UrlParse(s)

\* url.Values.Get(key): the key's first value, "" when there is none
ValuesGet(m, k) == IF k \in DOMAIN m /\ m[k] # <<>> THEN m[k][1] ELSE <<>>

\* (*URL).Query()
UrlQuery(u) == ParseQuery(u.RawQuery)

\* (*URL).String()
UrlString(u) ==
    u.Path \o (IF u.ForceQuery \/ u.RawQuery # <<>>
               THEN <<"?">> \o u.RawQuery ELSE <<>>)

\* the least key of a non-empty key set, in byte order
MinKey(ks) == CHOOSE k \in ks : \A o \in ks : o = k \/ StrLess(k, o)

\* one key's "k=v" pieces joined by "&"
RECURSIVE EncodeKey(_, _)
EncodeKey(k, vs) ==
    IF vs = <<>> THEN <<>>
    ELSE QueryEscape(k) \o <<"=">> \o QueryEscape(Head(vs))
         \o (IF Tail(vs) = <<>> THEN <<>> ELSE <<"&">> \o EncodeKey(k, Tail(vs)))

\* url.Values.Encode(): "URL encoded" form sorted by key
RECURSIVE EncodeKeys(_, _)
EncodeKeys(m, ks) ==
    IF ks = {} THEN <<>>
    ELSE LET k    == MinKey(ks)
             rest == EncodeKeys(m, ks \ {k})
             this == EncodeKey(k, m[k])
         IN  IF this = <<>> THEN rest
             ELSE IF rest = <<>> THEN this
             ELSE this \o <<"&">> \o rest

ValuesEncode(m) == EncodeKeys(m, DOMAIN m)

----------------------------------------------------------------------------
(* Options values and their query encoding *)

NoErr == "nil"

\* the options values handed to addOptions: the untyped nil interface, a nil
\* *ListSubscriberOptions, a value that is no struct, and a pointer to an
\* options struct.  Filter is << >> for a nil *Filter and <<f>> for &f.
NilOpt == [kind |-> "nil"]
NilPtrOpt == [kind |-> "nilptr"]
NonStructOpt == [kind |-> "nonstruct"]

FilterNames == {<<"status">>, <<>>}
FilterValues == {<<"active">>, <<>>}
Filters == {<<>>} \cup {<<[Name |-> n, Value |-> v]>> : n \in FilterNames, v \in FilterValues}

StructOpts ==
    [kind : {"opts"}, Filter : Filters, Page : 0..MaxPage, Limit : 0..MaxPage]

Options == {NilOpt, NilPtrOpt, NonStructOpt} \cup StructOpts

KeyFilter == <<"Filter">>
KeyFilterName == <<"Filter", "[", "Name", "]">>
KeyFilterValue == <<"Filter", "[", "Value", "]">>

\* query.Values(opt) for the options struct: the Filter field carries no url
\* tag, so a nil *Filter is encoded as Filter= and a present one as
\* Filter[Name]=, Filter[Value]=; page and limit are omitted when zero.
\* A nil input gives empty values, an input that is no struct an error.
QueryValues(opt) ==
    CASE opt.kind \in {"nil", "nilptr"} -> [ok |-> TRUE, v |-> EmptyValues]
      [] opt.kind \in {"nonstruct", "unencodable"} ->
            [ok |-> FALSE, v |-> EmptyValues]
      [] OTHER ->
            [ok |-> TRUE,
             v  |-> (IF opt.Filter = <<>>
                     THEN (KeyFilter :> << <<>> >>)
                     ELSE (KeyFilterName :> <<opt.Filter[1].Name>>)
                          @@ (KeyFilterValue :> <<opt.Filter[1].Value>>))
                    @@ (IF opt.Page = 0 THEN EmptyValues
                        ELSE (<<"page">> :> <<Itoa(opt.Page)>>))
                    @@ (IF opt.Limit = 0 THEN EmptyValues
                        ELSE (<<"limit">> :> <<Itoa(opt.Limit)>>))]

----------------------------------------------------------------------------
(* client.go: addOptions *)

\* fmt.Sprintf("filter[%s]", name)
FilterKeyFor(name) == <<"filter", "[">> \o name \o <<"]">>

\* MergeValues without the interception of the Filter keys: the raw
\* Filter, Filter[Name] and Filter[Value] keys reach the query string
MergeValuesLeaksFilter(origValues, newValues) ==
    [k \in DOMAIN origValues \cup DOMAIN newValues |->
        IF k \in DOMAIN newValues THEN newValues[k] ELSE origValues[k]]

\* MergeValues with the original values lost: the options' values replace
\* the whole query instead of being merged into it
MergeValuesDropsOrig(origValues, newValues) ==
    LET kept == DOMAIN newValues \ {KeyFilter, KeyFilterName, KeyFilterValue}
    IN  [k \in kept |-> newValues[k]]

\* the loop over newValues: the three Filter keys are intercepted, every
\* other key overwrites the key of the original values
MergeValues(origValues, newValues) ==
    LET kept == DOMAIN newValues \ {KeyFilter, KeyFilterName, KeyFilterValue}
    IN  [k \in DOMAIN origValues \cup kept |->
            IF k \in kept THEN newValues[k] ELSE origValues[k]]

\* filterKey and filterValue after the loop, then origValues.Add
AddFilter(values, newValues) ==
    LET filterKey == IF KeyFilterName \in DOMAIN newValues
                     THEN FilterKeyFor(newValues[KeyFilterName][1]) ELSE <<>>
        filterValue == IF KeyFilterValue \in DOMAIN newValues
                       THEN newValues[KeyFilterValue][1] ELSE <<>>
    IN  IF filterKey # <<>> THEN ValuesAdd(values, filterKey, filterValue)
        ELSE values

addOptions(s, opt) ==
    IF opt.kind = "nilptr" THEN [url |-> s, err |-> NoErr]
    ELSE LET origURL == UrlParse(s)
             newValues == QueryValues(opt)
         IN  IF ~origURL.ok THEN [url |-> s, err |-> "url.Parse"]
             ELSE IF ~newValues.ok THEN [url |-> s, err |-> "query.Values"]
             ELSE LET values == AddFilter(MergeValues(UrlQuery(origURL), newValues.v),
                                          newValues.v)
                  IN  [url |-> UrlString([origURL EXCEPT
                                            !.RawQuery = ValuesEncode(values)]),
                       err |-> NoErr]

----------------------------------------------------------------------------
(* The option encoder on its own: every base URL of the model with every   *)
(* options value                                                           *)

ApiPath == APIBase \o <<"/subscribers">>

BaseKeys ==
    {<<"page">>, <<"page_token">>, <<"filter", "[", "status", "]">>,
     <<"filter", "%5B", "status", "%5D">>, KeyFilter, KeyFilterName}
BaseVals == {<<"old">>, <<"2">>}
BasePairs == {k \o <<"=">> \o v : k \in BaseKeys, v \in BaseVals}

RECURSIVE JoinPairs(_)
JoinPairs(ps) ==
    IF ps = <<>> THEN <<>>
    ELSE Head(ps) \o (IF Tail(ps) = <<>> THEN <<>> ELSE <<"&">> \o JoinPairs(Tail(ps)))

RawQueries ==
    {JoinPairs(ps) : ps \in UNION {[1..n -> BasePairs] : n \in 0..MaxBasePairs}}

BaseURLs ==
    {ApiPath, ApiPath \o <<"?">>, ApiPath \o <<CTL>>}
    \cup {ApiPath \o <<"?">> \o q : q \in RawQueries \ {<<>>}}
    \cup {ApiPath \o <<CTL, "?">> \o q : q \in RawQueries \ {<<>>}}

EncInit ==
    /\ encS \in BaseURLs
    /\ encOpt \in Options
    /\ encOut = [url |-> <<>>, err |-> NoErr]
    /\ encPc = "call"

AddOptionsCall ==
    /\ encPc = "call"
    /\ encOut' = addOptions(encS, encOpt)
    /\ encPc' = "done"
    /\ UNCHANGED <<encS, encOpt, linksVars, pipeVars>>

EncNext == AddOptionsCall

----------------------------------------------------------------------------
(* Properties of the option encoder (SpecEncoder) *)

\* the query of a URL string, read back as key -> list of values
QueryOf(s) == UrlQuery(UrlParse(s))

\* the keys an options value asks for in the output
ProducedKeys(opt) ==
    (IF opt.Page # 0 THEN {<<"page">>} ELSE {})
    \cup (IF opt.Limit # 0 THEN {<<"limit">>} ELSE {})
    \cup (IF opt.Filter # <<>>
          THEN {<<"filter", "[">> \o opt.Filter[1].Name \o <<"]">>} ELSE {})

\* C5: for every base URL and every options value that carries a filter
\* (name, value), the query string addOptions produces holds the key
\* filter[name] with the single value `value`, and holds no key named
\* Filter, Filter[Name] or Filter[Value].  (Stated for the calls that
\* return a URL without error.)
C5_FilterKeyOnce ==
    (encPc = "done" /\ encOpt.kind = "opts" /\ encOpt.Filter # <<>>
     /\ encOut.err = NoErr) =>
        LET q  == QueryOf(encOut.url)
            fk == <<"filter", "[">> \o encOpt.Filter[1].Name \o <<"]">>
        IN  /\ fk \in DOMAIN q
            /\ q[fk] = <<encOpt.Filter[1].Value>>
            /\ DOMAIN q \cap {KeyFilter, KeyFilterName, KeyFilterValue} = {}

\* C5 as amended: for every base URL that parses and every options value
\* that carries a filter (name, value), addOptions succeeds and the query
\* string holds the key filter[name] whose values are those the base URL
\* already gave that key followed by `value` (the single value `value`
\* when the base URL had none); a key named Filter, Filter[Name] or
\* Filter[Value] occurs only where the base URL carried it, unchanged.
C5_FilterKeyAppended ==
    (encPc = "done" /\ encOpt.kind = "opts" /\ encOpt.Filter # <<>>
     /\ UrlParse(encS).ok) =>
        LET pre == QueryOf(encS)
            q   == QueryOf(encOut.url)
            fk  == <<"filter", "[">> \o encOpt.Filter[1].Name \o <<"]">>
        IN  /\ encOut.err = NoErr
            /\ fk \in DOMAIN q
            /\ q[fk] = (IF fk \in DOMAIN pre THEN pre[fk] ELSE <<>>)
                        \o <<encOpt.Filter[1].Value>>
            /\ \A k \in {KeyFilter, KeyFilterName, KeyFilterValue} :
                    /\ k \in DOMAIN q <=> k \in DOMAIN pre
                    /\ k \in DOMAIN q => q[k] = pre[k]

\* the filter status=active encoded onto a base URL that carries a page
\* token and no filter
C5_Witness ==
    /\ encPc = "done"
    /\ encOpt.kind = "opts"
    /\ encOpt.Filter = <<[Name |-> <<"status">>, Value |-> <<"active">>]>>
    /\ encS = ApiPath \o <<"?", "page_token", "=", "old">>
    /\ encOut.err = NoErr
    /\ QueryOf(encOut.url)[<<"filter", "[", "status", "]">>] = << <<"active">> >>
    /\ DOMAIN QueryOf(encOut.url) \subseteq
            {<<"filter", "[", "status", "]">>, <<"page_token">>, <<"page">>, <<"limit">>}

\* C9: for every base URL that parses and every options struct, addOptions
\* succeeds, every pre-existing key the options do not produce is kept with
\* its values unchanged, and every non-filter key the options produce
\* (page, limit) holds exactly the option's value.
C9_MergeKeepsAndOverwrites ==
    (encPc = "done" /\ encOpt.kind = "opts" /\ UrlParse(encS).ok) =>
        LET pre == QueryOf(encS)
            out == QueryOf(encOut.url)
        IN  /\ encOut.err = NoErr
            /\ \A k \in DOMAIN pre \ ProducedKeys(encOpt) :
                    k \in DOMAIN out /\ out[k] = pre[k]
            /\ encOpt.Page # 0 =>
                    /\ <<"page">> \in DOMAIN out
                    /\ out[<<"page">>] = <<Itoa(encOpt.Page)>>
            /\ encOpt.Limit # 0 =>
                    /\ <<"limit">> \in DOMAIN out
                    /\ out[<<"limit">>] = <<Itoa(encOpt.Limit)>>

\* a call that both keeps a pre-existing key (page_token) and overwrites
\* one (page=2 becomes page=1)
C9_Witness ==
    /\ encPc = "done"
    /\ encOpt.kind = "opts"
    /\ encOpt.Page = 1
    /\ encS = ApiPath \o <<"?", "page_token", "=", "old", "&", "page", "=", "2">>
    /\ encOut.err = NoErr
    /\ QueryOf(encOut.url)[<<"page">>] = << <<"1">> >>
    /\ QueryOf(encOut.url)[<<"page_token">>] = << <<"old">> >>

\* C10: addOptions called with an absent options value (a nil pointer or
\* the nil interface) returns the base URL string verbatim with no error,
\* for every base URL string.
C10_AbsentOptionsVerbatim ==
    (encPc = "done" /\ encOpt.kind \in {"nil", "nilptr"}) =>
        (encOut.url = encS /\ encOut.err = NoErr)

----------------------------------------------------------------------------
(* meta.go: the Links helpers *)

\* a nil *Links, and a Links value (First and Last are never read by the
\* helpers and are left out)
NilLinks == [isNil |-> TRUE, Prev |-> <<>>, Next |-> <<>>]

pageTokenFromURL(urlText) ==
    LET u == UrlParseRequestURI(urlText)
    IN  IF ~u.ok THEN [token |-> <<>>, err |-> "url.ParseRequestURI"]
        ELSE [token |-> ValuesGet(UrlQuery(u), <<"page_token">>), err |-> NoErr]

\* nextPageToken reading the wrong link
nextPageTokenReadsPrev(l) ==
    IF l.isNil \/ l.Prev = <<>> THEN [token |-> <<>>, err |-> NoErr]
    ELSE pageTokenFromURL(l.Prev)

nextPageToken(l) ==
    IF l.isNil \/ l.Next = <<>> THEN [token |-> <<>>, err |-> NoErr]
    ELSE pageTokenFromURL(l.Next)

prevPageToken(l) ==
    IF l.isNil \/ l.Prev = <<>> THEN [token |-> <<>>, err |-> NoErr]
    ELSE pageTokenFromURL(l.Prev)

\* isLast dereferences l: on a nil *Links the call panics
isLast(l) == IF l.isNil THEN "panic" ELSE l.Next = <<>>

LinkPairs ==
    {<<"page", "=", "2">>, <<"page_token", "=", "tok">>,
     <<"page_token", "=", "old">>, <<"page_token", "=">>}

LinkQueries ==
    {JoinPairs(ps) : ps \in UNION {[1..n -> LinkPairs] : n \in 0..MaxLinkPairs}}

\* page links: the empty string, absolute URIs, absolute paths, and strings
\* ParseRequestURI rejects (a relative reference, a control character)
LinkURLs ==
    {<<>>}
    \cup {p \o (IF q = <<>> THEN <<>> ELSE <<"?">> \o q) :
            p \in {ApiPath, <<"/subscribers">>, <<"subscribers">>, ApiPath \o <<CTL>>},
            q \in LinkQueries}

LinksObjects ==
    {NilLinks} \cup [isNil : {FALSE}, Prev : LinkURLs, Next : LinkURLs]

LinksInit ==
    /\ links \in LinksObjects
    /\ linksOp = "none"
    /\ linksOut = [token |-> <<>>, err |-> NoErr, last |-> FALSE]

CallNextPageToken ==
    /\ linksOp # "off"
    /\ linksOp' = "NextPageToken"
    /\ linksOut' = [token |-> nextPageToken(links).token,
                    err |-> nextPageToken(links).err, last |-> FALSE]
    /\ UNCHANGED <<links, encVars, pipeVars>>

CallPrevPageToken ==
    /\ linksOp # "off"
    /\ linksOp' = "PrevPageToken"
    /\ linksOut' = [token |-> prevPageToken(links).token,
                    err |-> prevPageToken(links).err, last |-> FALSE]
    /\ UNCHANGED <<links, encVars, pipeVars>>

CallIsLastPage ==
    /\ linksOp # "off"
    /\ linksOp' = "IsLastPage"
    /\ linksOut' = [token |-> <<>>, err |-> NoErr, last |-> isLast(links)]
    /\ UNCHANGED <<links, encVars, pipeVars>>

LinksNext == CallNextPageToken \/ CallPrevPageToken \/ CallIsLastPage

----------------------------------------------------------------------------
(* Properties of the Links helpers (SpecLinks) *)

\* the page_token parameter a link's text carries after its first "?"
PageTokenParam(s) ==
    LET i == IndexOf(s, "?")
        m == IF i = 0 THEN EmptyValues ELSE ParseQuery(SubSeq(s, i + 1, Len(s)))
    IN  IF <<"page_token">> \in DOMAIN m THEN m[<<"page_token">>][1] ELSE <<>>

\* a link url.ParseRequestURI accepts
WellFormedLink(s) ==
    /\ s # <<>>
    /\ Head(s) \in {"https://connect.mailerlite.com/api", "/subscribers"}
    /\ \A j \in 1..Len(s) : s[j] # CTL

TokenAsClaimed(l, link, out) ==
    IF l.isNil \/ link = <<>>
    THEN out.token = <<>> /\ out.err = NoErr
    ELSE out.token = PageTokenParam(link) /\ out.err = NoErr

\* C7: for every non-nil links object IsLastPage() is true exactly when the
\* next link is empty; NextPageToken() returns the empty token with no
\* error when the object is absent or its next link is empty, and otherwise
\* returns the page_token query parameter of the next link, without error;
\* PrevPageToken() likewise on prev.
C7_TokensAlwaysReturned ==
    /\ (linksOp = "IsLastPage" /\ ~links.isNil) =>
            linksOut.last = (links.Next = <<>>)
    /\ linksOp = "NextPageToken" => TokenAsClaimed(links, links.Next, linksOut)
    /\ linksOp = "PrevPageToken" => TokenAsClaimed(links, links.Prev, linksOut)

TokenAsAmended(l, link, out) ==
    IF l.isNil \/ link = <<>>
    THEN out.token = <<>> /\ out.err = NoErr
    ELSE IF WellFormedLink(link)
    THEN out.token = PageTokenParam(link) /\ out.err = NoErr
    ELSE out.token = <<>> /\ out.err # NoErr

\* C7 as amended: as C7, but the page_token parameter is returned only for
\* a link that parses as a request URI; for a non-empty link that does not
\* parse the helper returns the empty token together with the parse error.
C7_TokensOfWellFormedLinks ==
    /\ (linksOp = "IsLastPage" /\ ~links.isNil) =>
            linksOut.last = (links.Next = <<>>)
    /\ linksOp = "NextPageToken" => TokenAsAmended(links, links.Next, linksOut)
    /\ linksOp = "PrevPageToken" => TokenAsAmended(links, links.Prev, linksOut)

\* NextPageToken() has extracted a token from a next link that also carries
\* a page number, on an object whose prev link is empty
C7_Witness ==
    /\ linksOp = "NextPageToken"
    /\ ~links.isNil
    /\ links.Prev = <<>>
    /\ links.Next = ApiPath \o <<"?", "page", "=", "2", "&", "page_token", "=", "tok">>
    /\ linksOut.token = <<"tok">>
    /\ linksOut.err = NoErr

----------------------------------------------------------------------------
(* client.go: the client, newRequest *)

testKey == <<"valid-api-key">>
Keys == {testKey, <<"invalid-api-key">>}
HttpClients == {"http.DefaultClient", "testClient"}

APIKey == apiKey
Client == client

MethodGet == "GET"
MethodPost == "POST"
MethodPut == "PUT"
MethodDelete == "DELETE"

\* the methods handed to newRequest; "" is taken as GET by http.NewRequest,
\* "B D" (a space in the token) is rejected by it
Methods == {MethodGet, MethodPost, MethodPut, MethodDelete, "PATCH", "", "B D"}
ValidMethod(m) == m # "B D"

Paths == {<<"/subscribers">>, <<"/subscribers", CTL>>}

\* a value json.Encoder cannot encode (a channel, a func)
UnencodableBody == [kind |-> "unencodable"]

ReqBodies ==
    {NilOpt, NilPtrOpt, UnencodableBody,
     [kind |-> "opts", Filter |-> <<>>, Page |-> 0, Limit |-> 0],
     [kind |-> "opts", Filter |-> <<[Name |-> <<"status">>, Value |-> <<"active">>]>>,
      Page |-> 1, Limit |-> 0]}

\* http.Header: header name -> list of values
EmptyHeader == [k \in {} |-> <<>>]
HeaderSet(h, k, v) == [n \in DOMAIN h \cup {k} |-> IF n = k THEN <<v>> ELSE h[n]]
HeaderAdd(h, k, v) ==
    [n \in DOMAIN h \cup {k} |->
        IF n = k THEN (IF k \in DOMAIN h THEN Append(h[k], v) ELSE <<v>>) ELSE h[n]]

NoReq ==
    [ok |-> FALSE, Method |-> "", URL |-> <<>>, Header |-> EmptyHeader,
     Body |-> "none", err |-> NoErr]

\* the four headers with the Authorization value lacking its "Bearer " prefix
SetHeadersNoBearer(h, key) ==
    HeaderSet(HeaderSet(HeaderAdd(HeaderSet(h,
        "Content-Type", <<"application/json">>),
        "Authorization", key),
        "Accept", <<"application/json">>),
        "User-Agent", <<"Mailerlite-Client-Golang-v1">>)

\* the four headers every request carries
SetHeaders(h, key) ==
    HeaderSet(HeaderSet(HeaderAdd(HeaderSet(h,
        "Content-Type", <<"application/json">>),
        "Authorization", <<"Bearer ">> \o key),
        "Accept", <<"application/json">>),
        "User-Agent", <<"Mailerlite-Client-Golang-v1">>)

\* http.NewRequest(method, url, body): an invalid method or a URL that does
\* not parse is an error; an empty method means GET; the header is fresh
HttpNewRequest(method, url, body) ==
    IF ~ValidMethod(method) THEN [NoReq EXCEPT !.err = "net/http: invalid method"]
    ELSE IF ~UrlParse(url).ok THEN [NoReq EXCEPT !.err = "url.Parse"]
    ELSE [ok |-> TRUE, Method |-> (IF method = "" THEN MethodGet ELSE method),
          URL |-> UrlString(UrlParse(url)), Header |-> EmptyHeader,
          Body |-> body, err |-> NoErr]

newRequest(key, method, path, body) ==
    LET reqURL == APIBase \o path
        encodes == method \in {MethodPost, MethodPut, MethodDelete}
        url == IF method = MethodGet THEN addOptions(reqURL, body).url ELSE reqURL
        r == HttpNewRequest(method, url, IF encodes THEN "json" ELSE "none")
    IN  IF encodes /\ body.kind = "unencodable"
        THEN [NoReq EXCEPT !.err = "json.Encode"]
        ELSE IF ~r.ok THEN r
        ELSE [r EXCEPT !.Header = SetHeaders(r.Header, key)]

----------------------------------------------------------------------------
(* client.go: responses, errors, checkResponse *)

StatusAccepted == 202
StatusUnauthorized == 401

\* the status codes of the model: both ends of 200..299 with their
\* neighbours, and the failure codes of the tests
Statuses ==
    ((200 - StatusMargin)..(200 + StatusMargin))
    \cup ((299 - StatusMargin)..(299 + StatusMargin))
    \cup {400, StatusUnauthorized, 404, 500}

\* a response body: the text still unread, what encoding/json finds in it
\* (kind "object": a JSON object, msg / errs hold its "message" / "errors"
\* member when it has one; "mistyped": valid JSON that does not fit
\* ErrorResponse, such as a numeric "message"; "text": no JSON; "readerr":
\* reading fails), and whether it decodes into the caller's target
EmptyBody == [kind |-> "empty", raw |-> <<>>, msg |-> <<>>, errs |-> <<>>, fits |-> FALSE]

ResponseBodies ==
    {EmptyBody,
     [kind |-> "text", raw |-> <<"OK">>, msg |-> <<>>, errs |-> <<>>, fits |-> FALSE],
     [kind |-> "readerr", raw |-> <<>>, msg |-> <<>>, errs |-> <<>>, fits |-> FALSE],
     [kind |-> "mistyped", raw |-> <<"{\"message\":5,\"errors\":[1]}">>,
      msg |-> <<>>, errs |-> <<"[1]">>, fits |-> FALSE]}
    \cup {[kind |-> "object", raw |-> <<"{...}">>, msg |-> m, errs |-> e, fits |-> FALSE] :
            m \in {<<>>, << <<"The given data was invalid.">> >>},
            e \in {<<"[{filter: The filter must be an array.}]">>}}
    \cup {[kind |-> "object", raw |-> <<"{...}">>, msg |-> m, errs |-> <<>>, fits |-> f] :
            m \in {<<>>, << <<"Unauthenticated.">> >>}, f \in BOOLEAN}

NoResp ==
    [present |-> FALSE, StatusCode |-> 0, Body |-> EmptyBody, Method |-> "",
     URL |-> <<>>]

\* error values: the nil error, and errors with their type name; Message,
\* Errors and the response's request and status are those of ErrorResponse
NilError ==
    [type |-> "nil", Message |-> <<>>, Errors |-> <<>>, Method |-> "",
     URL |-> <<>>, StatusCode |-> 0]
PlainError(type) == [NilError EXCEPT !.type = type]

\* (*ErrorResponse).Error() and (*AuthError).Error()
Error(r) ==
    <<r.Method, " ">> \o r.URL \o <<":", " ", ToString(r.StatusCode), " ">> \o r.Message

\* ioutil.ReadAll(r.Body): the unread text, and the body left behind
ReadAll(body) ==
    IF body.kind = "readerr" THEN [data |-> EmptyBody, ok |-> FALSE, rest |-> body]
    ELSE [data |-> body, ok |-> TRUE, rest |-> EmptyBody]

\* json.Unmarshal(data, errorResponse): the record after the call and
\* whether it returned an error
Unmarshal(data, e) ==
    CASE data.kind = "object" ->
            [ok |-> TRUE,
             e  |-> [e EXCEPT !.Message = IF data.msg # <<>> THEN data.msg[1] ELSE @,
                              !.Errors = IF data.errs # <<>> THEN data.errs ELSE @]]
      [] data.kind = "mistyped" ->
            [ok |-> FALSE,
             e  |-> [e EXCEPT !.Errors = IF data.errs # <<>> THEN data.errs ELSE @]]
      [] OTHER -> [ok |-> FALSE, e |-> e]

\* the success test with both ends of the range excluded
StatusIsSuccessOpenRange(code) ==
    code = StatusAccepted \/ (code > 200 /\ code < 299)

\* the two early returns of checkResponse
StatusIsSuccess(code) ==
    code = StatusAccepted \/ (code >= 200 /\ code <= 299)

\* the variant switch with the 401 case lost
ErrorVariantNeverAuth(code) == "ErrorResponse"

\* the switch at the end of checkResponse
ErrorVariant(code) ==
    IF code = StatusUnauthorized THEN "AuthError" ELSE "ErrorResponse"

\* checkResponse(r): the error returned, and r after the call (its body is
\* read to the end when the status is a failure)
checkResponse(r) ==
    IF StatusIsSuccess(r.StatusCode) THEN [err |-> NilError, r |-> r]
    ELSE LET errorResponse ==
                 [NilError EXCEPT !.Method = r.Method, !.URL = r.URL,
                                  !.StatusCode = r.StatusCode]
             read == ReadAll(r.Body)
             um == Unmarshal(read.data, errorResponse)
             filled == IF read.ok /\ read.data.kind # "empty"
                       THEN (IF um.ok THEN um.e
                             ELSE [um.e EXCEPT !.Message = read.data.raw])
                       ELSE errorResponse
         IN  [err |-> [filled EXCEPT !.type = ErrorVariant(r.StatusCode)],
              r |-> [r EXCEPT !.Body = read.rest]]

----------------------------------------------------------------------------
(* client.go: do *)

\* the context of a call: still active, cancelled, or past its deadline
Contexts == {"active", "canceled", "deadline"}
CtxErr(ctx) ==
    IF ctx = "canceled" THEN PlainError("context.Canceled")
    ELSE PlainError("context.DeadlineExceeded")

TransportError == PlainError("transport")

\* newResponse(resp): the wrapper, through which the status code is read
newResponse(r) == <<[StatusCode |-> r.StatusCode]>>
NilResponse == <<>>

\* the transport-error branch reporting the transport error even when the
\* context is done
DoTransportFailedIgnoresCtx(ctx) ==
    [response |-> NilResponse, err |-> TransportError]

\* the branch of do taken when c.client.Do returned an error
DoTransportFailed(ctx) ==
    [response |-> NilResponse,
     err |-> IF ctx # "active" THEN CtxErr(ctx) ELSE TransportError]

\* json.NewDecoder(resp.Body).Decode(v)
DecodeOK(body) == body.kind = "object" /\ body.fits

\* the decode step returning the response wrapper beside a decode error
DoDecodeKeepsResponse(response, body, hasTarget) ==
    IF hasTarget /\ ~DecodeOK(body)
    THEN [response |-> response, err |-> PlainError("json.Decode")]
    ELSE [response |-> response, err |-> NilError]

\* the end of do: decoding into v when v is not nil
DoDecode(response, body, hasTarget) ==
    IF hasTarget /\ ~DecodeOK(body)
    THEN [response |-> NilResponse, err |-> PlainError("json.Decode")]
    ELSE [response |-> response, err |-> NilError]

\* do(ctx, req, v) when the transport answers t: what do returns, the
\* response object after the call, and which of checkResponse and the JSON
\* decoder were run
do(ctx, t, hasTarget) ==
    IF t.failed
    THEN [out |-> DoTransportFailed(ctx), r |-> NoResp,
          classified |-> FALSE, decoded |-> FALSE, check |-> NilError]
    ELSE LET response == newResponse(t.resp)
             chk == checkResponse(t.resp)
         IN  IF chk.err # NilError
             THEN [out |-> [response |-> response, err |-> chk.err], r |-> chk.r,
                   classified |-> TRUE, decoded |-> FALSE, check |-> chk.err]
             ELSE [out |-> DoDecode(response, chk.r.Body, hasTarget),
                   r |-> IF hasTarget THEN [chk.r EXCEPT !.Body =
                                   IF @.kind = "readerr" THEN @ ELSE EmptyBody]
                         ELSE chk.r,
                   classified |-> TRUE, decoded |-> hasTarget, check |-> chk.err]

----------------------------------------------------------------------------
(* The pipeline: one client, one call at a time *)

NoDoIn == [ctx |-> "active", hasTarget |-> FALSE, failed |-> FALSE, body |-> EmptyBody]
NoDoOut ==
    [called |-> FALSE, response |-> NilResponse, err |-> NilError,
     classified |-> FALSE, decoded |-> FALSE]

\* NewClient(k)
PipeInit ==
    /\ apiKey = testKey
    /\ setKey = apiKey
    /\ client = "http.DefaultClient"
    /\ setClient = client
    /\ pc = "idle"
    /\ req = NoReq
    /\ resp = NoResp
    /\ doIn = NoDoIn
    /\ doOut = NoDoOut
    /\ checks = <<>>

\* newRequest and do are unexported and run back to back inside one
\* resource method, so the setters run between calls
SetAPIKey(apikey) ==
    /\ pc = "idle"
    /\ apiKey' = apikey
    /\ setKey' = apikey
    /\ UNCHANGED <<client, setClient, pc, req, resp, doIn, doOut, checks>>
    /\ UNCHANGED <<encVars, linksVars>>

SetHttpClient(h) ==
    /\ pc = "idle"
    /\ client' = h
    /\ setClient' = h
    /\ UNCHANGED <<apiKey, setKey, pc, req, resp, doIn, doOut, checks>>
    /\ UNCHANGED <<encVars, linksVars>>

\* a resource method starts a call: the previous call's response is gone
NewRequest(method, path, body) ==
    /\ pc = "idle"
    /\ req' = newRequest(apiKey, method, path, body)
    /\ pc' = IF req'.ok THEN "built" ELSE "idle"
    /\ resp' = NoResp
    /\ doIn' = NoDoIn
    /\ doOut' = NoDoOut
    /\ checks' = <<>>
    /\ UNCHANGED <<apiKey, client, setKey, setClient, encVars, linksVars>>

\* what the transport may answer to req: an error, or a response of any
\* status and body whose Request is req
TransportResults ==
    {[failed |-> TRUE, resp |-> NoResp]}
    \cup {[failed |-> FALSE,
           resp |-> [present |-> TRUE, StatusCode |-> s, Body |-> b,
                     Method |-> req.Method, URL |-> req.URL]] :
            s \in Statuses, b \in ResponseBodies}

Do(ctx, t, hasTarget) ==
    /\ pc = "built"
    /\ LET d == do(ctx, t, hasTarget)
       IN  /\ doOut' = [called |-> TRUE, response |-> d.out.response,
                        err |-> d.out.err, classified |-> d.classified,
                        decoded |-> d.decoded]
           /\ resp' = d.r
           /\ checks' = IF d.classified THEN <<d.check>> ELSE <<>>
    /\ doIn' = [ctx |-> ctx, hasTarget |-> hasTarget, failed |-> t.failed,
                body |-> t.resp.Body]
    /\ pc' = "idle"
    /\ req' = NoReq
    /\ UNCHANGED <<apiKey, client, setKey, setClient, encVars, linksVars>>

\* checkResponse called once more on the response do classified
CheckResponseAgain ==
    /\ pc = "idle"
    /\ resp.present
    /\ Len(checks) < MaxChecks
    /\ checks' = Append(checks, checkResponse(resp).err)
    /\ resp' = checkResponse(resp).r
    /\ UNCHANGED <<apiKey, client, setKey, setClient, pc, req, doIn, doOut>>
    /\ UNCHANGED <<encVars, linksVars>>

PipeNext ==
    \/ \E k \in Keys : SetAPIKey(k)
    \/ \E h \in HttpClients : SetHttpClient(h)
    \/ \E m \in Methods, p \in Paths, b \in ReqBodies : NewRequest(m, p, b)
    \/ \E ctx \in Contexts, t \in TransportResults, v \in BOOLEAN : Do(ctx, t, v)
    \/ CheckResponseAgain

----------------------------------------------------------------------------
(* Properties of the pipeline (Spec) *)

\* C1: checkResponse returns no error exactly when the status code is 202
\* or lies in 200..299; for every other status code it returns an error.
C1_SuccessExactly2xx ==
    \A i \in 1..Len(checks) :
        (checks[i] = NilError) <=>
            (resp.StatusCode = 202 \/ resp.StatusCode \in 200..299)

\* checkResponse has accepted a response at the upper end of the range
C1_Witness ==
    /\ Len(checks) >= 1
    /\ resp.StatusCode = 299
    /\ checks[1] = NilError

\* the message checkResponse is to decode from a body: the "message" member
\* of a JSON object, the raw text of a body that does not decode, nothing
\* for an empty or unreadable body
MessageOf(body) ==
    CASE body.kind = "object" -> (IF body.msg = <<>> THEN <<>> ELSE body.msg[1])
      [] body.kind \in {"text", "mistyped"} -> body.raw
      [] OTHER -> <<>>

\* C2: an error returned by checkResponse is the AuthError variant exactly
\* when the status is 401 and the ErrorResponse variant otherwise; its
\* string is "<METHOD> <URL>: <status> <message>" from the request's method
\* and URL, the response's status and the error's message, which on the
\* classification of the response as received is the message decoded from
\* its body.
C2_VariantAndString ==
    \A i \in 1..Len(checks) :
        checks[i] # NilError =>
            /\ checks[i].type = IF resp.StatusCode = 401 THEN "AuthError"
                                ELSE "ErrorResponse"
            /\ Error(checks[i]) =
                    <<resp.Method, " ">> \o resp.URL
                    \o <<":", " ", ToString(resp.StatusCode), " ">>
                    \o checks[i].Message
            /\ i = 1 => checks[i].Message = MessageOf(doIn.body)

\* the authentication failure of the tests
C2_Witness ==
    /\ Len(checks) >= 1
    /\ checks[1].type = "AuthError"
    /\ Error(checks[1]) =
            <<"GET", " ", "https://connect.mailerlite.com/api", "/subscribers",
              ":", " ", "401", " ", "Unauthenticated.">>

\* C3: when the transport returns an error, do returns a nil response and
\* the context's error if the context is done, else the transport error,
\* and runs neither the classifier nor the JSON decoder.
C3_TransportFailure ==
    (doOut.called /\ doIn.failed) =>
        /\ doOut.response = <<>>
        /\ doOut.err.type =
                CASE doIn.ctx = "canceled" -> "context.Canceled"
                  [] doIn.ctx = "deadline" -> "context.DeadlineExceeded"
                  [] OTHER -> "transport"
        /\ ~doOut.classified
        /\ ~doOut.decoded
        /\ checks = <<>>

\* the transport failed under a cancelled context
C3_Witness ==
    /\ doOut.called
    /\ doIn.failed
    /\ doIn.ctx = "canceled"
    /\ doOut.err.type = "context.Canceled"
    /\ doOut.response = <<>>

DecodeFails(in) ==
    in.hasTarget /\ ~(in.body.kind = "object" /\ in.body.fits)

\* C4: once the transport has returned a response: on a failure status do
\* returns the classifier's error with a non-nil wrapper exposing the
\* status code; on a success status with a decode target whose decoding
\* fails it returns the decode error with a nil response; otherwise a
\* non-nil wrapper and a nil error.  So the response is nil exactly when
\* the transport or the decoding failed.
C4_ResponseAfterTransport ==
    doOut.called =>
        LET success == resp.StatusCode \in 200..299
            wrapper == <<[StatusCode |-> resp.StatusCode]>>
        IN  /\ (~doIn.failed /\ ~success) =>
                    /\ doOut.err = checks[1]
                    /\ doOut.err # NilError
                    /\ doOut.response = wrapper
            /\ (~doIn.failed /\ success /\ DecodeFails(doIn)) =>
                    /\ doOut.err.type = "json.Decode"
                    /\ doOut.response = <<>>
            /\ (~doIn.failed /\ success /\ ~DecodeFails(doIn)) =>
                    /\ doOut.err = NilError
                    /\ doOut.response = wrapper
            /\ (doOut.response = <<>>) <=>
                    (doIn.failed \/ (success /\ DecodeFails(doIn)))

\* status 202 with the body OK and a decode target: the decode error comes
\* back with a nil response
C4_Witness ==
    /\ doOut.called
    /\ ~doIn.failed
    /\ resp.StatusCode = 202
    /\ doIn.hasTarget
    /\ doIn.body.kind = "text"
    /\ doOut.err.type = "json.Decode"
    /\ doOut.response = <<>>

\* C6: after any sequence of SetAPIKey and SetHttpClient calls APIKey()
\* returns the key most recently set, Client() the transport most recently
\* set, and a request built by newRequest carries exactly one Authorization
\* header, "Bearer " followed by that key.
C6_CurrentKeyInRequests ==
    /\ APIKey = setKey
    /\ Client = setClient
    /\ pc = "built" =>
            /\ "Authorization" \in DOMAIN req.Header
            /\ req.Header["Authorization"] = << <<"Bearer ">> \o setKey >>

\* a DELETE request built after both setters were called
C6_Witness ==
    /\ pc = "built"
    /\ setKey = <<"invalid-api-key">>
    /\ setClient = "testClient"
    /\ req.Method = "DELETE"
    /\ req.Header["Authorization"] = << <<"Bearer ", "invalid-api-key">> >>

\* C8: classifying the same response object repeatedly yields the same
\* verdict and the same error content (variant, message, errors payload)
\* on every call.
C8_RepeatedClassificationAgrees ==
    \A i, j \in 1..Len(checks) : checks[i] = checks[j]

----------------------------------------------------------------------------
(* Specifications: each component runs while the others rest *)

EncIdle ==
    /\ encS = <<>>
    /\ encOpt = NilPtrOpt
    /\ encOut = [url |-> <<>>, err |-> NoErr]
    /\ encPc = "off"

LinksIdle ==
    /\ links = NilLinks
    /\ linksOp = "off"
    /\ linksOut = [token |-> <<>>, err |-> NoErr, last |-> FALSE]

PipeIdle ==
    /\ apiKey = <<>>
    /\ setKey = <<>>
    /\ client = "http.DefaultClient"
    /\ setClient = "http.DefaultClient"
    /\ pc = "off"
    /\ req = NoReq
    /\ resp = NoResp
    /\ doIn = NoDoIn
    /\ doOut = NoDoOut
    /\ checks = <<>>

Init == PipeInit /\ EncIdle /\ LinksIdle
Next == PipeNext
Spec == Init /\ [][Next]_vars

EncoderInit == EncInit /\ LinksIdle /\ PipeIdle
SpecEncoder == EncoderInit /\ [][EncNext]_vars

LinksHelpersInit == LinksInit /\ EncIdle /\ PipeIdle
SpecLinks == LinksHelpersInit /\ [][LinksNext]_vars

====
